---- MODULE Spec2Model ----
(***************************************************************************)
(* A model of Collection<K, V> (src/src/Collection.ts), an insertion-      *)
(* ordered Map with random sampling, filtering, structural equality,       *)
(* merging and positional access.                                          *)
(*                                                                         *)
(* A collection is a sequence of <<key, value>> pairs in insertion order   *)
(* with pairwise distinct keys.  Objects live in `heap`, a sequence of     *)
(* collections; an object's identity is its index in `heap`.               *)
(***************************************************************************)
EXTENDS Integers, Sequences, FiniteSets, TLC

\* ------------------------------------------------------------------ bounds
MaxKey == 2     \* keys of the structural operations are 1..MaxKey
MaxCs == 2      \* length of the sequence handed to concat
MaxSize == 3    \* size of the collections handed to random/first/last

\* ------------------------------------------------------------ JS values
NaN == "NaN"                \* the one value with NaN !== NaN
Undefined == "undefined"    \* what an absent array slot or map entry reads as
Vals == {"a", NaN}
Keys == 1..MaxKey
Null == 0                   \* a null/undefined argument where an object is expected
NotACollection == -1        \* an object that is not an instance of Collection

\* arg1 === arg2
StrictEquals(arg1, arg2) == arg1 = arg2 /\ arg1 # NaN

\* ------------------------------------------------ the inherited Map<K, V>
size(c) == Len(c)

keys(c) == [j \in 1..Len(c) |-> c[j][1]]

values(c) == [j \in 1..Len(c) |-> c[j][2]]

has(c, k) == \E j \in 1..Len(c) : c[j][1] = k

get(c, k) == IF has(c, k) THEN c[CHOOSE j \in 1..Len(c) : c[j][1] = k][2] ELSE Undefined

\* Map.prototype.set: an existing key keeps its place, a new key goes last
set(c, k, v) ==
  IF has(c, k)
    THEN [j \in 1..Len(c) |-> IF c[j][1] = k THEN <<k, v>> ELSE c[j]]
    ELSE Append(c, <<k, v>>)

delete(c, k) == SelectSeq(c, LAMBDA e : e[1] # k)

\* new Collection(entries): every entry is set, in order
RECURSIVE setAll(_, _)
setAll(c, entries) ==
  IF entries = <<>> THEN c
  ELSE setAll(set(c, Head(entries)[1], Head(entries)[2]), Tail(entries))

NewCollection(entries) == setAll(<<>>, entries)

KeySet(c) == {c[j][1] : j \in 1..Len(c)}

\* get empty()
empty(c) == size(c) = 0

\* ------------------------------------------------------------ structural
\* clone(): new Collection([ ...this ])
clone(c) == NewCollection(c)

\* filter(): the pairs the predicate accepts, in iteration order.  A predicate
\* is the set of keys it is truthy on.
RECURSIVE filterPairs(_, _)
filterPairs(c, p) ==
  IF c = <<>> THEN <<>>
  ELSE IF Head(c)[1] \in p
         THEN <<Head(c)>> \o filterPairs(Tail(c), p)
         ELSE filterPairs(Tail(c), p)

\* the 'collection' (and 'map') shape sets every accepted pair on a new container
filterCollection(c, p) == setAll(<<>>, filterPairs(c, p))

\* an element of concat's input is merged when it is a Collection
IsCollection(h, x) == x \in 1..Len(h)

\* concat(): the loop over the inputs, merging onto the accumulator
RECURSIVE concatLoop(_, _, _)
concatLoop(h, merged, cs) ==
  IF cs = <<>> THEN merged
  ELSE IF ~IsCollection(h, Head(cs))
         THEN concatLoop(h, merged, Tail(cs))
         ELSE concatLoop(h, setAll(merged, h[Head(cs)]), Tail(cs))

\* a merge in which the first holder of a key wins
RECURSIVE concatKeepFirstLoop(_, _, _)
concatKeepFirstLoop(h, merged, cs) ==
  IF cs = <<>> THEN merged
  ELSE IF ~IsCollection(h, Head(cs))
         THEN concatKeepFirstLoop(h, merged, Tail(cs))
         ELSE concatKeepFirstLoop(h, setAll(h[Head(cs)], merged), Tail(cs))

concatKeepFirst(h, this, cs) == concatKeepFirstLoop(h, clone(h[this]), cs)

concat(h, this, cs) == concatLoop(h, clone(h[this]), cs)

\* lodash/isEqual on the primitive values of the model: SameValueZero
lodashIsEqual(arg1, arg2) == arg1 = arg2

\* an equal() that compares the two collections entry by entry, in order
equalLoopInOrder(entries, collection, deep) ==
  /\ keys(entries) = keys(collection)
  /\ \A j \in 1..Len(entries) :
       IF deep THEN lodashIsEqual(collection[j][2], entries[j][2])
               ELSE StrictEquals(collection[j][2], entries[j][2])

\* equal(): the loop over this collection's entries, false at the first mismatch
RECURSIVE equalLoop(_, _, _)
equalLoop(entries, collection, deep) ==
  IF entries = <<>> THEN TRUE
  ELSE LET key == Head(entries)[1]
           value == Head(entries)[2]
           same == IF deep THEN lodashIsEqual(get(collection, key), value)
                           ELSE StrictEquals(get(collection, key), value)
       IN IF ~has(collection, key) \/ ~same THEN FALSE
          ELSE equalLoop(Tail(entries), collection, deep)

\* equal(collection, options) of the object `this` of heap h; `collection` is an
\* object of h or Null, `hasLodash` whether lodashIsEqual is set
equal(h, this, collection, deep, hasLodash) ==
  IF collection = Null \/ size(h[this]) # size(h[collection])
    THEN [threw |-> FALSE, value |-> FALSE]
  ELSE IF this = collection
    THEN [threw |-> FALSE, value |-> TRUE]
  ELSE IF deep /\ ~hasLodash
    THEN [threw |-> TRUE, value |-> FALSE]
  ELSE [threw |-> FALSE, value |-> equalLoop(h[this], h[collection], deep)]

\* ------------------------------------------------------------ positional
Min(x, y) == IF x <= y THEN x ELSE y

Max(x, y) == IF x >= y THEN x ELSE y

\* Array.prototype.slice(start, end): a negative index counts from the end
slice(array, start, end) ==
  LET len == Len(array)
      from == IF start < 0 THEN Max(len + start, 0) ELSE Min(start, len)
      to == IF end < 0 THEN Max(len + end, 0) ELSE Min(end, len)
  IN SubSeq(array, from + 1, to)

\* an optional numeric argument: <<>> when absent, <<n>> when given
Given(amount) == amount # <<>>

\* !amount || amount <= 1
SingleForm(amount) == ~Given(amount) \/ amount[1] = 0 \/ amount[1] <= 1

\* the bare element at an index of an array, undefined (no value) past its end
Bare(array, index) ==
  [single |-> TRUE,
   vals |-> IF index >= 0 /\ index < Len(array) THEN <<array[index + 1]>> ELSE <<>>]

Array(array) == [single |-> FALSE, vals |-> array]

first(c, amount) ==
  IF SingleForm(amount) THEN Bare(values(c), 0)
  ELSE Array(slice(values(c), 0, Min(Len(values(c)), amount[1])))

firstKey(c, amount) ==
  IF SingleForm(amount) THEN Bare(keys(c), 0)
  ELSE Array(slice(keys(c), 0, Min(Len(keys(c)), amount[1])))

last(c, amount) ==
  IF SingleForm(amount) THEN Bare(values(c), Len(values(c)) - 1)
  ELSE Array(slice(values(c), -Min(Len(values(c)), amount[1]), Len(values(c))))

lastKey(c, amount) ==
  IF SingleForm(amount) THEN Bare(keys(c), Len(keys(c)) - 1)
  ELSE Array(slice(keys(c), -Min(Len(keys(c)), amount[1]), Len(keys(c))))

\* ------------------------------------------------------------- sampling
\* range(n) of @src/utils/range: the index sequence [0 .. n - 1]
range(n) == [j \in 1..n |-> j - 1]

\* swap(arr, a, b) of @src/utils/swap: the elements at (0-based) a and b exchanged
swap(array, a, b) == [array EXCEPT ![a + 1] = array[b + 1], ![b + 1] = array[a + 1]]

\* array[index] of a JS array: undefined outside [0, length)
At(array, index) ==
  IF index >= 0 /\ index < Len(array) THEN array[index + 1] ELSE Undefined

\* if (size < 1) throw ...
CannotSampleNothing(sz) == sz < 0

CannotSample(sz) == sz < 1

\* a normalisation that forgets amounts below 1
NormalizeFalsyOnly(amount, sz) ==
  LET clamped == IF Given(amount) /\ amount[1] # 0 /\ amount[1] > sz THEN sz
                 ELSE IF Given(amount) THEN amount[1] ELSE 0
  IN IF clamped = 0 THEN 1 ELSE clamped

\* if (amount && amount > size) amount = size
\* if (!amount || (amount && amount < 1)) amount = 1
Normalize(amount, sz) ==
  LET clamped == IF Given(amount) /\ amount[1] # 0 /\ amount[1] > sz THEN sz
                 ELSE IF Given(amount) THEN amount[1] ELSE 0
  IN IF clamped = 0 \/ clamped < 1 THEN 1 ELSE clamped

\* size > 500 ? size > 1000 ? 15 : 50 : 80
Threshold(sz) == IF sz > 500 THEN IF sz > 1000 THEN 15 ELSE 50 ELSE 80

\* Math.floor(amount / size * 100) > threshold; amount / 0 is Infinity.  The
\* quotient is exact here: at the sizes of the model the double amount / size * 100
\* has the floor of the rational.
largeAmount(amt, sz) ==
  IF sz = 0 THEN amt > 0 ELSE (amt * 100) \div sz > Threshold(sz)

\* Math.floor(Math.random() * n): any of 0 .. n - 1, and 0 when n is 0
Draws(n) == IF n <= 0 THEN {0} ELSE 0..(n - 1)

\* amount <= 1 ? results[0] : results
ReturnValue(amt, res) == IF amt <= 1 THEN Bare(res, 0) ELSE Array(res)

\* ------------------------------------------------------------------ state
VARIABLES
  heap,           \* the Collection objects, by identity
  ret,            \* the last call: its operation, receiver, arguments and result
  lodash,         \* whether require('lodash/isEqual') succeeded at load time
  pc,             \* where a call of random() stands
  amount,         \* random(): `amount` after normalisation
  unique,         \* random(): options.unique after normalisation
  arr,            \* random(): [ ...this.values() ]
  max,            \* random(): Algorithm A's `max`
  i,              \* random(): the running loop's counter
  randomNumbers,  \* random(): Algorithm A's index sequence
  random,         \* random(): Algorithm B's accepted indices
  results         \* random(): `results`

vars == <<heap, ret, lodash, pc, amount, unique, arr, max, i, randomNumbers, random, results>>

randomVars == <<pc, amount, unique, arr, max, i, randomNumbers, random, results>>

\* a call record: `arg` holds the integer arguments, `pred` a predicate's keys,
\* `obj` the identity of a returned Collection (0: none), `bool` a returned
\* boolean, `vals` the returned values or keys (`single`: one bare value, not an
\* array; a bare value that is undefined is the empty `vals`)
NoCall ==
  [op |-> "none", this |-> 0, arg |-> <<>>, pred |-> {}, obj |-> 0,
   deep |-> FALSE, bool |-> FALSE, single |-> FALSE, vals |-> <<>>, threw |-> FALSE]

Call(op, this, arg) == [NoCall EXCEPT !.op = op, !.this = this, !.arg = arg]

Objects == 1..Len(heap)

RandomIdle ==
  /\ pc = "idle" /\ amount = 0 /\ unique = FALSE /\ arr = <<>> /\ max = 0
  /\ i = 0 /\ randomNumbers = <<>> /\ random = <<>> /\ results = <<>>

\* ----------------------------------------------- inputs of the operations
\* the strictly increasing listing of a set of keys
Ascending(S) ==
  CHOOSE s \in [1..Cardinality(S) -> S] : \A x, y \in 1..Cardinality(S) : x < y => s[x] < s[y]

\* the collections holding value v under some keys, inserted in ascending order
Sources(v) == {[j \in 1..Cardinality(S) |-> <<Ascending(S)[j], v>>] : S \in SUBSET Keys}

\* every collection over the keys K: any keys of K, in any insertion order
AllCollections(K) ==
  {c \in UNION {[1..n -> K \X Vals] : n \in 0..Cardinality(K)} :
     \A x, y \in 1..Len(c) : x # y => c[x][1] # c[y][1]}

\* ------------------------------------------ container operations (Spec)
\* The caller's script: two collections are built, `a` (object 1, any
\* collection) and `b` (object 2, NaN under keys inserted in ascending
\* order), one call derives a container from them, and then one of the three
\* containers is mutated.
Init ==
  /\ heap \in {<<a, b>> : a \in AllCollections(Keys), b \in Sources(NaN)}
  /\ ret = NoCall
  /\ lodash = FALSE
  /\ RandomIdle

\* the object a call that builds a Collection returns: a new one
Allocate(h, c) == Append(h, c)

Returned(h, this) == Len(h)

\* clone()
Clone(o) ==
  /\ ret = NoCall
  /\ heap' = Allocate(heap, clone(heap[o]))
  /\ ret' = [Call("clone", o, <<>>) EXCEPT !.obj = Returned(heap', o)]
  /\ UNCHANGED <<randomVars, lodash>>

FilterShapes == {"array", "map", "collection"}

\* filter(p, {return: shape}); only the 'collection' shape returns a Collection,
\* the other two return the accepted pairs as an array or a plain Map
Filter(o, p, shape) ==
  /\ ret = NoCall
  /\ IF shape = "collection"
       THEN /\ heap' = Allocate(heap, filterCollection(heap[o], p))
            /\ ret' = [Call("filter", o, <<>>) EXCEPT !.pred = p, !.obj = Returned(heap', o)]
       ELSE /\ heap' = heap
            /\ LET pairs == IF shape = "map" THEN filterCollection(heap[o], p)
                                             ELSE filterPairs(heap[o], p)
               IN ret' = [Call("filter", o, keys(pairs)) EXCEPT !.pred = p, !.vals = values(pairs)]
  /\ UNCHANGED <<randomVars, lodash>>

\* what concat may be handed: Collections, nulls and other objects
ConcatInputs ==
  UNION {[1..n -> Objects \cup {Null, NotACollection}] : n \in 0..MaxCs}

\* a concat that merges onto `this` itself instead of onto a clone of it
ConcatInPlace(o, cs) ==
  /\ ret = NoCall
  /\ heap' = [heap EXCEPT ![o] = concatLoop(heap, heap[o], cs)]
  /\ ret' = [Call("concat", o, cs) EXCEPT !.obj = o]
  /\ UNCHANGED <<randomVars, lodash>>

\* concat(cs)
Concat(o, cs) ==
  /\ ret = NoCall
  /\ heap' = Allocate(heap, concat(heap, o, cs))
  /\ ret' = [Call("concat", o, cs) EXCEPT !.obj = Returned(heap', o)]
  /\ UNCHANGED <<randomVars, lodash>>

\* c.set(k, v), inherited from Map, on a source or on the derived container
Set(o, k, v) ==
  /\ ret.obj # 0
  /\ heap' = [heap EXCEPT ![o] = set(heap[o], k, v)]
  /\ ret' = [Call("set", o, <<k>>) EXCEPT !.vals = <<v>>]
  /\ UNCHANGED <<randomVars, lodash>>

\* c.delete(k), inherited from Map
Delete(o, k) ==
  /\ ret.obj # 0
  /\ heap' = [heap EXCEPT ![o] = delete(heap[o], k)]
  /\ ret' = [Call("delete", o, <<k>>) EXCEPT !.bool = has(heap[o], k)]
  /\ UNCHANGED <<randomVars, lodash>>

Next ==
  \/ \E o \in Objects : Clone(o)
  \/ \E o \in Objects, p \in SUBSET Keys, shape \in FilterShapes : Filter(o, p, shape)
  \/ \E o \in Objects, cs \in ConcatInputs : Concat(o, cs)
  \/ \E o \in Objects, k \in Keys, v \in Vals : Set(o, k, v)
  \/ \E o \in Objects, k \in Keys : Delete(o, k)

Spec == Init /\ [][Next]_vars

\* ---------------------------------------------------------- claims (Spec)
\* C5: a call of clone, filter(p, {return: 'collection'}) or concat returns a
\* container that is none of the existing ones and leaves every existing
\* container (the receiver and the inputs among them) as it was; a set or delete
\* afterwards changes the container it is called on and no other, so mutating
\* the result never shows in a source and mutating a source never shows in the
\* result.
C5_IndependentContainers ==
  [][/\ ret'.obj # 0 =>
          /\ ret'.obj \notin DOMAIN heap
          /\ ret'.obj \in DOMAIN heap'
          /\ \A o \in DOMAIN heap : heap'[o] = heap[o]
     /\ ret'.op \in {"set", "delete"} =>
          /\ DOMAIN heap' = DOMAIN heap
          /\ \A o \in DOMAIN heap \ {ret'.this} : heap'[o] = heap[o]]_vars

\* C5's case: the derived container was mutated and now differs from both sources
C5_Witness ==
  /\ Len(heap) = 3 /\ ret.op \in {"set", "delete"} /\ ret.this = 3
  /\ heap[3] # heap[1] /\ heap[3] # heap[2] /\ heap[1] # <<>> /\ heap[2] # <<>>

\* the elements of concat's input that are merged
ValidAt(cs) == {j \in 1..Len(cs) : cs[j] # Null /\ cs[j] # NotACollection}

Largest(S) == CHOOSE x \in S : \A y \in S : y <= x

\* C6: the keys of c.concat(cs) are those of c and of every valid element of cs;
\* a key maps to the value of the last valid element of cs holding it, or to c's
\* value when no element holds it; null and invalid elements raise nothing.
C6_ConcatLastWins ==
  ret.op = "concat" =>
    LET merged == heap[ret.obj]
        c == heap[ret.this]
        cs == ret.arg
    IN /\ ~ret.threw
       /\ KeySet(merged) = KeySet(c) \cup UNION {KeySet(heap[cs[j]]) : j \in ValidAt(cs)}
       /\ \A k \in KeySet(merged) :
            LET holders == {j \in ValidAt(cs) : has(heap[cs[j]], k)}
            IN get(merged, k) = IF holders = {} THEN get(c, k)
                                ELSE get(heap[cs[Largest(holders)]], k)

\* C6's case: b.concat([null, a]) where a overrides b's value on a shared key
C6_Witness ==
  /\ ret.op = "concat" /\ ret.this = 2 /\ ret.arg = <<Null, 1>>
  /\ \E k \in Keys : /\ has(heap[1], k) /\ has(heap[2], k)
                      /\ get(heap[1], k) # get(heap[2], k)
                      /\ get(heap[3], k) = get(heap[1], k)

\* ------------------------------------------------- equality (SpecEqual)
\* two collections `a` (object 1) and `b` (object 2) are built, with lodash
\* installed or not, and one comparison is made
InitEqual ==
  /\ heap \in {<<a, b>> : a \in AllCollections(Keys), b \in AllCollections(Keys)}
  /\ ret = NoCall
  /\ lodash \in BOOLEAN
  /\ RandomIdle

\* o.equal(x, {deep}), x an object or null/undefined
Equal(o, x, deep) ==
  /\ ret = NoCall
  /\ LET r == equal(heap, o, x, deep, lodash)
     IN ret' = [Call("equal", o, <<x>>) EXCEPT !.deep = deep, !.bool = r.value, !.threw = r.threw]
  /\ UNCHANGED <<heap, randomVars, lodash>>

\* o.equal(o.clone(), {deep}): the clone is a new object, dropped after the call
EqualClone(o, deep) ==
  /\ ret = NoCall
  /\ LET h == Allocate(heap, clone(heap[o]))
         r == equal(h, o, Returned(h, o), deep, lodash)
     IN ret' = [Call("equalClone", o, <<>>) EXCEPT !.deep = deep, !.bool = r.value, !.threw = r.threw]
  /\ UNCHANGED <<heap, randomVars, lodash>>

NextEqual ==
  \/ \E o \in Objects, x \in Objects \cup {Null}, deep \in BOOLEAN : Equal(o, x, deep)
  \/ \E o \in Objects, deep \in BOOLEAN : EqualClone(o, deep)

SpecEqual == InitEqual /\ [][NextEqual]_vars

\* ---------------------------------------------------- claims (SpecEqual)
\* the size `collection?.size` reads: none for null/undefined
SizesDiffer(this, x) == x = Null \/ size(heap[this]) # size(heap[x])

\* C7: a.equal(a.clone()) is true whatever a holds, and a.equal(b) is false
\* whenever the sizes differ, b null or undefined included.
C7_EqualToClone ==
  /\ ret.op = "equalClone" /\ ~ret.deep => ret.bool /\ ~ret.threw
  /\ ret.op = "equal" /\ SizesDiffer(ret.this, ret.arg[1]) => ~ret.bool /\ ~ret.threw

\* the second half of C7 alone
C7_SizesDifferNotEqual ==
  ret.op = "equal" /\ SizesDiffer(ret.this, ret.arg[1]) => ~ret.bool /\ ~ret.threw

\* the same keys, each mapped to strictly equal values
SameEntries(a, b) ==
  /\ KeySet(a) = KeySet(b)
  /\ \A k \in KeySet(a) : StrictEquals(get(a, k), get(b, k))

\* C10 as stated: without deep, a.equal(b) is true exactly when a and b hold the
\* same keys with strictly equal values, whatever the insertion order, and
\* a.equal(b) = b.equal(a).
C10_EqualIffSameEntries ==
  ret.op = "equal" /\ ~ret.deep /\ ret.arg[1] # Null =>
    /\ ret.bool <=> SameEntries(heap[ret.this], heap[ret.arg[1]])
    /\ ret.bool = equal(heap, ret.arg[1], ret.this, FALSE, lodash).value

\* C10 as amended: the same, for two distinct objects; a collection compared
\* with itself is equal whatever it holds.
C10_EqualIffSameEntriesOrSameObject ==
  ret.op = "equal" /\ ~ret.deep /\ ret.arg[1] # Null =>
    /\ ~ret.threw
    /\ ret.bool <=> \/ ret.this = ret.arg[1]
                    \/ SameEntries(heap[ret.this], heap[ret.arg[1]])
    /\ ret.bool = equal(heap, ret.arg[1], ret.this, FALSE, lodash).value

\* C10's case: two objects found equal although their insertion orders differ
C10_Witness ==
  /\ ret.op = "equal" /\ ~ret.deep /\ ret.this = 1 /\ ret.arg = <<2>> /\ ret.bool
  /\ heap[1] # heap[2]

\* ------------------------------------------ positional (SpecPositional)
AmountArgs == {<<>>} \cup {<<n>> : n \in -1..MaxSize + 1}

\* one collection of up to MaxSize entries is built and one question asked
InitPositional ==
  /\ heap \in {<<c>> : c \in AllCollections(1..MaxSize)}
  /\ ret = NoCall
  /\ lodash = FALSE
  /\ RandomIdle

Answer(op, o, n, r) ==
  /\ ret = NoCall
  /\ ret' = [Call(op, o, n) EXCEPT !.single = r.single, !.vals = r.vals]
  /\ UNCHANGED <<heap, randomVars, lodash>>

First(o, n) == Answer("first", o, n, first(heap[o], n))

FirstKey(o, n) == Answer("firstKey", o, n, firstKey(heap[o], n))

Last(o, n) == Answer("last", o, n, last(heap[o], n))

LastKey(o, n) == Answer("lastKey", o, n, lastKey(heap[o], n))

NextPositional ==
  \/ \E o \in Objects, n \in AmountArgs : First(o, n)
  \/ \E o \in Objects, n \in AmountArgs : FirstKey(o, n)
  \/ \E o \in Objects, n \in AmountArgs : Last(o, n)
  \/ \E o \in Objects, n \in AmountArgs : LastKey(o, n)

SpecPositional == InitPositional /\ [][NextPositional]_vars

\* ----------------------------------------------- claims (SpecPositional)
Leading(s, n) == SubSeq(s, 1, Min(n, Len(s)))

Trailing(s, n) == SubSeq(s, Len(s) - Min(n, Len(s)) + 1, Len(s))

\* what the claim expects of the call recorded in ret, given the values or keys
\* `s` in insertion order and the end asked for
Expected(s, fromStart) ==
  IF Given(ret.arg)
    THEN /\ ~ret.single
         /\ ret.vals = IF fromStart THEN Leading(s, ret.arg[1]) ELSE Trailing(s, ret.arg[1])
    ELSE /\ ret.single
         /\ ret.vals = IF fromStart THEN Leading(s, 1) ELSE Trailing(s, 1)

\* C8: for every n >= 1, first(n)/firstKey(n) return the sequence of the
\* min(n, size) leading values/keys and last(n)/lastKey(n) that of the
\* min(n, size) trailing ones; without an argument they return the single
\* first/last value or key, undefined on an empty collection.
C8_Positional ==
  (Given(ret.arg) => ret.arg[1] >= 1) =>
    /\ ret.op = "first" => Expected(values(heap[ret.this]), TRUE)
    /\ ret.op = "firstKey" => Expected(keys(heap[ret.this]), TRUE)
    /\ ret.op = "last" => Expected(values(heap[ret.this]), FALSE)
    /\ ret.op = "lastKey" => Expected(keys(heap[ret.this]), FALSE)

\* the same for every n >= 2, which the code does satisfy
C8_PositionalFromTwo ==
  (Given(ret.arg) => ret.arg[1] >= 2) =>
    /\ ret.op = "first" => Expected(values(heap[ret.this]), TRUE)
    /\ ret.op = "firstKey" => Expected(keys(heap[ret.this]), TRUE)
    /\ ret.op = "last" => Expected(values(heap[ret.this]), FALSE)
    /\ ret.op = "lastKey" => Expected(keys(heap[ret.this]), FALSE)

\* --------------------------------------------------- random (SpecRandom)
\* the collections random is called on: keys 1..n, any values
RandomInputs ==
  UNION {{[j \in 1..n |-> <<j, vs[j]>>] : vs \in [1..n -> Vals]} : n \in 0..MaxSize}

InitRandom ==
  /\ heap \in {<<c>> : c \in RandomInputs}
  /\ ret = NoCall
  /\ lodash = FALSE
  /\ RandomIdle

Running == pc \in {"shuffle", "drawUnique", "drawUniqueNext", "draw"}

\* random(n, {unique: u}) up to the first loop (lines 34-49, 61): the throw on
\* an empty collection, the normalisation and the choice of the algorithm
CallRandom(o, n, u) ==
  /\ ~Running
  /\ LET sz == size(heap[o])
         amt == Normalize(n, sz)
     IN IF CannotSample(sz)
          THEN /\ ret' = [Call("random", o, n) EXCEPT !.threw = TRUE]
               /\ pc' = "threw"
               /\ amount' = 0 /\ unique' = FALSE /\ arr' = <<>> /\ max' = 0
               /\ randomNumbers' = <<>>
          ELSE /\ ret' = Call("random", o, n)
               /\ amount' = amt
               /\ unique' = u
               /\ arr' = values(heap[o])
               /\ IF largeAmount(amt, sz) /\ u
                    THEN /\ randomNumbers' = range(sz + 1)
                         /\ max' = sz
                         /\ pc' = "shuffle"
                    ELSE /\ randomNumbers' = <<>>
                         /\ max' = 0
                         /\ pc' = IF u THEN "drawUnique" ELSE "draw"
  /\ i' = 0 /\ random' = <<>> /\ results' = <<>>
  /\ UNCHANGED <<heap, lodash>>

\* Algorithm A, one turn of the loop of lines 51-55
Shuffle(num) ==
  /\ pc = "shuffle" /\ i < Len(arr)
  /\ num \in Draws(max)
  /\ randomNumbers' = swap(randomNumbers, num, max)
  /\ max' = max - 1
  /\ i' = i + 1
  /\ UNCHANGED <<heap, ret, lodash, pc, amount, unique, arr, random, results>>

\* Algorithm A, lines 57-59 and the return of line 79
FinishShuffle ==
  /\ pc = "shuffle" /\ i >= Len(arr)
  /\ results' = [j \in 1..amount |-> At(arr, randomNumbers[j])]
  /\ ret' = [ret EXCEPT !.single = ReturnValue(amount, results').single,
                        !.vals = ReturnValue(amount, results').vals]
  /\ pc' = "done"
  /\ UNCHANGED <<heap, lodash, amount, unique, arr, max, i, randomNumbers, random>>

\* a unique draw that accepts an index already chosen
DrawUniqueUnchecked(num) ==
  /\ pc = "drawUnique" /\ i < amount
  /\ num \in Draws(Len(arr))
  /\ random' = Append(random, num) /\ i' = i
  /\ pc' = "drawUniqueNext"
  /\ UNCHANGED <<heap, ret, lodash, amount, unique, arr, max, randomNumbers, results>>

\* a unique draw that drops an index already chosen without repeating the turn
DrawUniqueNoRedraw(num) ==
  /\ pc = "drawUnique" /\ i < amount
  /\ num \in Draws(Len(arr))
  /\ random' = IF \E j \in 1..Len(random) : random[j] = num THEN random ELSE Append(random, num)
  /\ i' = i
  /\ pc' = "drawUniqueNext"
  /\ UNCHANGED <<heap, ret, lodash, amount, unique, arr, max, randomNumbers, results>>

\* Algorithm B with unique, the body of the loop of lines 68-71:
\* random.indexOf(num) > -1 ? i -= 1 : random.push(num)
DrawUnique(num) ==
  /\ pc = "drawUnique" /\ i < amount
  /\ num \in Draws(Len(arr))
  /\ IF \E j \in 1..Len(random) : random[j] = num
       THEN i' = i - 1 /\ random' = random
       ELSE i' = i /\ random' = Append(random, num)
  /\ pc' = "drawUniqueNext"
  /\ UNCHANGED <<heap, ret, lodash, amount, unique, arr, max, randomNumbers, results>>

\* Algorithm B with unique, the i++ of line 68
NextTurn ==
  /\ pc = "drawUniqueNext"
  /\ i' = i + 1
  /\ pc' = "drawUnique"
  /\ UNCHANGED <<heap, ret, lodash, amount, unique, arr, max, randomNumbers, random, results>>

\* Algorithm B without unique, one turn of the loop of line 73
Draw(num) ==
  /\ pc = "draw" /\ i < amount
  /\ num \in Draws(Len(arr))
  /\ random' = Append(random, num)
  /\ i' = i + 1
  /\ UNCHANGED <<heap, ret, lodash, pc, amount, unique, arr, max, randomNumbers, results>>

\* Algorithm B, line 76 and the return of line 79
FinishDraws ==
  /\ pc \in {"drawUnique", "draw"} /\ i >= amount
  /\ results' = [j \in 1..Len(random) |-> At(arr, random[j])]
  /\ ret' = [ret EXCEPT !.single = ReturnValue(amount, results').single,
                        !.vals = ReturnValue(amount, results').vals]
  /\ pc' = "done"
  /\ UNCHANGED <<heap, lodash, amount, unique, arr, max, i, randomNumbers, random>>

Indices == 0..(MaxSize - 1)

NextRandom ==
  \/ \E o \in Objects, n \in AmountArgs, u \in BOOLEAN : CallRandom(o, n, u)
  \/ \E num \in Indices : Shuffle(num)
  \/ FinishShuffle
  \/ \E num \in Indices : DrawUnique(num)
  \/ NextTurn
  \/ \E num \in Indices : Draw(num)
  \/ FinishDraws

SpecRandom == InitRandom /\ [][NextRandom]_vars

\* every step that can be taken is taken, and every index keeps being drawn
FairSpecRandom ==
  /\ SpecRandom
  /\ WF_vars(NextRandom)
  /\ \A num \in Indices : SF_vars(DrawUnique(num))

\* --------------------------------------------------- claims (SpecRandom)
\* the slot indices behind the values of a finished call, in selection order
Picked == IF randomNumbers # <<>> THEN SubSeq(randomNumbers, 1, amount) ELSE random

\* C1: every value random returns is the value at a slot index i,
\* 0 <= i < size, of the snapshot of the values, under both algorithms.
C1_DrawnFromValues ==
  pc = "done" =>
    /\ Len(results) = Len(Picked)
    /\ \A j \in 1..Len(results) :
         /\ Picked[j] \in 0..(Len(arr) - 1)
         /\ results[j] = arr[Picked[j] + 1]

\* C2: with unique, for 1 <= n <= size, the slot indices behind the result are
\* pairwise distinct under both algorithms, whatever is drawn.
C2_DistinctSlots ==
  pc = "done" /\ unique =>
    \A x, y \in 1..Len(Picked) : x # y => Picked[x] # Picked[y]

\* C2's case: rejection sampling picked two slots, the later one first
C2_Witness ==
  /\ pc = "done" /\ unique /\ randomNumbers = <<>>
  /\ Given(ret.arg) /\ ret.arg[1] = 2 /\ Picked = <<2, 0>>

\* the number of values the claim expects of random(n) on `sz` entries
Effective(n, sz) == IF ~Given(n) \/ n[1] < 1 THEN 1 ELSE Min(n[1], sz)

\* C3: on a non-empty collection random(n) selects exactly min(n, size) values
\* (n absent or below 1 counts as 1), for both values of unique and under both
\* algorithms, and returns the single value when that number is <= 1 and the
\* sequence of that length otherwise.
C3_ExactCount ==
  pc = "done" =>
    LET eff == Effective(ret.arg, size(heap[ret.this]))
    IN /\ Len(results) = eff
       /\ ret.single <=> eff <= 1
       /\ ret.vals = IF eff <= 1 THEN <<results[1]>> ELSE results

\* C3's case: an amount beyond the size was clamped and a sequence returned
C3_Witness ==
  /\ pc = "done" /\ Given(ret.arg) /\ ret.arg[1] > size(heap[ret.this])
  /\ ~ret.single /\ Len(ret.vals) = size(heap[ret.this]) /\ Len(ret.vals) >= 2

\* C4: on an empty collection random fails, for every amount and options, before
\* any draw, and on a non-empty one it never fails; the collection's entries and
\* their order are never changed.
C4_EmptyThrows ==
  /\ [](ret.op = "random" =>
          /\ ret.threw <=> empty(heap[ret.this])
          /\ ret.threw =>
               /\ pc = "threw" /\ i = 0
               /\ random = <<>> /\ randomNumbers = <<>> /\ results = <<>>)
  /\ [][heap' = heap]_vars

\* C4's case: the call on the empty collection has thrown
C4_Witness == pc = "threw" /\ ret.threw /\ heap[ret.this] = <<>> /\ Given(ret.arg)

\* C9: under Algorithm B with unique the loop ends, with exactly `amount`
\* accepted indices, when every index keeps being drawn; meanwhile the counter
\* is never negative and the accepted indices never exceed `amount`.
C9_RejectionSamplingTerminates ==
  /\ [](pc \in {"drawUnique", "drawUniqueNext"} =>
          /\ i >= 0
          /\ Len(random) <= amount
          /\ amount >= 1 /\ amount <= Len(arr))
  /\ [](pc = "done" /\ unique /\ randomNumbers = <<>> => Len(random) = amount)
  /\ (pc = "drawUnique" ~> pc = "done")

\* C9's case: the loop ended after redrawing was possible
C9_Witness ==
  /\ pc = "done" /\ unique /\ randomNumbers = <<>>
  /\ amount >= 2 /\ Len(random) = amount /\ amount < Len(arr)

====
